---- MODULE Spec2Model ----
(***************************************************************************)
(* Model of raster/dev/mtn.py (class MTN): the sexagesimal / decimal       *)
(* degree conversions and the MTN50 / MTN25 / MTN10 sheet calculator; and  *)
(* of the operator of roadtools/op_match_terrain.py.                       *)
(*                                                                         *)
(* Angles are exact fixed-point numbers: an integer count of hundredths of *)
(* an arc-second (SecUnits per second), with exact products and quotients. *)
(* The IEEE rounding of the Python floats is modelled apart, in            *)
(* dms_to_dd_float and dd_to_dms_float, for the properties that depend on  *)
(* it.                                                                     *)
(* Strings are sequences of one-character strings, so that the "%2d"       *)
(* formatting and the int() parsing of where() are computed, not assumed.  *)
(***************************************************************************)
EXTENDS Integers, Sequences, FiniteSets, TLC

VARIABLES pc, op, args, idx, fmt, outcome, ret, err, origin, mtn_from_ccff, log,
          events

vars ==
  <<pc, op, args, idx, fmt, outcome, ret, err, origin, mtn_from_ccff, log,
    events>>

-----------------------------------------------------------------------------
(* Units *)

SecUnits == 100
MinUnits == 60 * SecUnits
DegUnits == 60 * 60 * SecUnits

-----------------------------------------------------------------------------
(* The static table MTN.mtn_from_ccff, in source order (key, sheet). *)

ccff_items ==
  {
    <<602, 1>>, <<2707, 117>>, <<811, 227>>, <<1014, 337>>, <<3517, 447>>, <<2122, 561>>, <<4026, 672>>, <<1831, 784>>,
    <<1136, 897>>, <<1941, 1009>>, <<702, 2>>, <<2807, 118>>, <<911, 228>>, <<1114, 338>>, <<3617, 448>>, <<2222, 562>>,
    <<4326, 673>>, <<1931, 785>>, <<1236, 898>>, <<2041, 1010>>, <<802, 3>>, <<308, 119>>, <<1011, 229>>, <<1214, 339>>,
    <<1018, 449>>, <<2322, 563>>, <<727, 674>>, <<2031, 786>>, <<1336, 899>>, <<2141, 1011>>, <<503, 6>>, <<408, 120>>,
    <<1111, 230>>, <<1314, 340>>, <<1118, 450>>, <<2422, 564>>, <<827, 675>>, <<2131, 787>>, <<1436, 900>>, <<2241, 1012>>,
    <<603, 7>>, <<508, 121>>, <<1211, 231>>, <<1414, 341>>, <<1218, 451>>, <<2522, 565>>, <<927, 676>>, <<2231, 788>>,
    <<1536, 901>>, <<2341, 1013>>, <<703, 8>>, <<608, 122>>, <<1311, 232>>, <<1514, 342>>, <<1318, 452>>, <<2622, 566>>,
    <<1027, 677>>, <<2331, 789>>, <<1636, 902>>, <<2441, 1014>>, <<803, 9>>, <<708, 123>>, <<1411, 233>>, <<1614, 343>>,
    <<1418, 453>>, <<2722, 567>>, <<1127, 678>>, <<2431, 790>>, <<1736, 903>>, <<2541, 1015>>, <<903, 10>>, <<808, 124>>,
    <<1511, 234>>, <<1714, 344>>, <<1518, 454>>, <<2822, 568>>, <<1227, 679>>, <<2531, 791>>, <<1836, 904>>, <<942, 1016>>,
    <<1003, 11>>, <<908, 125>>, <<1611, 235>>, <<1814, 345>>, <<1618, 455>>, <<2922, 569>>, <<1327, 680>>, <<2631, 792>>,
    <<1936, 905>>, <<1042, 1017>>, <<1103, 12>>, <<1008, 126>>, <<1711, 236>>, <<1914, 346>>, <<1718, 456>>, <<3022, 570>>,
    <<1427, 681>>, <<2731, 793>>, <<2036, 906>>, <<1142, 1018>>, <<1203, 13>>, <<1108, 127>>, <<1811, 237>>, <<2014, 347>>,
    <<1818, 457>>, <<3122, 571>>, <<1527, 682>>, <<2831, 794>>, <<2136, 907>>, <<1242, 1019>>, <<1303, 14>>, <<1208, 128>>,
    <<1911, 238>>, <<2114, 348>>, <<1918, 458>>, <<923, 572>>, <<1627, 683>>, <<2931, 795>>, <<2236, 908>>, <<1342, 1020>>,
    <<1403, 15>>, <<1308, 129>>, <<2011, 239>>, <<2214, 349>>, <<2018, 459>>, <<1023, 573>>, <<1727, 684>>, <<3031, 796>>,
    <<2336, 909>>, <<1442, 1021>>, <<1903, 18>>, <<1408, 130>>, <<2111, 240>>, <<2314, 350>>, <<2118, 460>>, <<1123, 574>>,
    <<1827, 685>>, <<3431, 798>>, <<2436, 910>>, <<1542, 1022>>, <<404, 20>>, <<1508, 131>>, <<2211, 241>>, <<2414, 351>>,
    <<2218, 461>>, <<1223, 575>>, <<1927, 686>>, <<3531, 799>>, <<2536, 911>>, <<1642, 1023>>, <<504, 21>>, <<1608, 132>>,
    <<2311, 242>>, <<2514, 352>>, <<2318, 462>>, <<1323, 576>>, <<2027, 687>>, <<832, 800>>, <<2636, 912>>, <<1742, 1024>>,
    <<604, 22>>, <<1708, 133>>, <<2411, 243>>, <<2614, 353>>, <<2418, 463>>, <<1423, 577>>, <<2127, 688>>, <<932, 801>>,
    <<2736, 913>>, <<1842, 1025>>, <<704, 23>>, <<1808, 134>>, <<2511, 244>>, <<2714, 354>>, <<2518, 464>>, <<1523, 578>>,
    <<2227, 689>>, <<1032, 802>>, <<2836, 914>>, <<1942, 1026>>, <<804, 24>>, <<1908, 135>>, <<2611, 245>>, <<2814, 355>>,
    <<2618, 465>>, <<1623, 579>>, <<2327, 690>>, <<1132, 803>>, <<837, 915>>, <<2042, 1027>>, <<904, 25>>, <<2008, 136>>,
    <<2711, 246>>, <<2914, 356>>, <<2718, 466>>, <<1723, 580>>, <<2427, 691>>, <<1232, 804>>, <<937, 916>>, <<2142, 1028>>,
    <<1004, 26>>, <<2108, 137>>, <<2811, 247>>, <<3014, 357>>, <<2818, 467>>, <<1823, 581>>, <<2527, 692>>, <<1332, 805>>,
    <<1037, 917>>, <<2242, 1029>>, <<1104, 27>>, <<2208, 138>>, <<2911, 248>>, <<3114, 358>>, <<2918, 468>>, <<1923, 582>>,
    <<2627, 693>>, <<1432, 806>>, <<1137, 918>>, <<2342, 1030>>, <<1204, 28>>, <<2308, 139>>, <<3011, 249>>, <<3214, 359>>,
    <<3018, 469>>, <<2023, 583>>, <<2727, 694>>, <<1532, 807>>, <<1237, 919>>, <<2442, 1031>>, <<1304, 29>>, <<2408, 140>>,
    <<3111, 250>>, <<3314, 360>>, <<3118, 470>>, <<2123, 584>>, <<2827, 695>>, <<1632, 808>>, <<1337, 920>>, <<2542, 1032>>,
    <<1404, 30>>, <<2508, 141>>, <<3211, 251>>, <<3414, 361>>, <<3218, 471>>, <<2223, 585>>, <<2927, 696>>, <<1732, 809>>,
    <<1437, 921>>, <<1143, 1033>>, <<1504, 31>>, <<2608, 142>>, <<3311, 252>>, <<3514, 362>>, <<3318, 472>>, <<2323, 586>>,
    <<3727, 697>>, <<1832, 810>>, <<1537, 922>>, <<1243, 1034>>, <<1604, 32>>, <<2708, 143>>, <<3411, 253>>, <<3614, 363>>,
    <<3418, 473>>, <<2423, 587>>, <<3827, 698>>, <<1932, 811>>, <<1637, 923>>, <<1343, 1035>>, <<1704, 33>>, <<2808, 144>>,
    <<3511, 254>>, <<3714, 364>>, <<919, 474>>, <<2523, 588>>, <<3927, 699>>, <<2032, 812>>, <<1737, 924>>, <<1443, 1036>>,
    <<1804, 34>>, <<2908, 145>>, <<3611, 255>>, <<3814, 365>>, <<1019, 475>>, <<2623, 589>>, <<4027, 700>>, <<2132, 813>>,
    <<1837, 925>>, <<1543, 1037>>, <<1904, 35>>, <<3008, 146>>, <<3711, 256>>, <<3914, 366>>, <<1119, 476>>, <<2723, 590>>,
    <<828, 701>>, <<2232, 814>>, <<1937, 926>>, <<1643, 1038>>, <<2004, 36>>, <<3108, 147>>, <<3811, 257>>, <<1115, 367>>,
    <<1219, 477>>, <<2823, 591>>, <<928, 702>>, <<2332, 815>>, <<2037, 927>>, <<1743, 1039>>, <<2104, 37>>, <<3208, 148>>,
    <<3911, 258>>, <<1215, 368>>, <<1319, 478>>, <<2923, 592>>, <<1028, 703>>, <<2432, 816>>, <<2137, 928>>, <<1843, 1040>>,
    <<2204, 38>>, <<3308, 149>>, <<4011, 259>>, <<1315, 369>>, <<1419, 479>>, <<3023, 593>>, <<1128, 704>>, <<2532, 817>>,
    <<2237, 929>>, <<1943, 1041>>, <<2304, 39>>, <<3408, 150>>, <<312, 260>>, <<1415, 370>>, <<1519, 480>>, <<3123, 594>>,
    <<1228, 705>>, <<2632, 818>>, <<2337, 930>>, <<2043, 1042>>, <<2404, 40>>, <<309, 151>>, <<412, 261>>, <<1515, 371>>,
    <<1619, 481>>, <<924, 595>>, <<1328, 706>>, <<2732, 819>>, <<2437, 931>>, <<2143, 1043>>, <<2504, 41>>, <<409, 152>>,
    <<512, 262>>, <<1615, 372>>, <<1719, 482>>, <<1024, 596>>, <<1428, 707>>, <<2832, 820>>, <<2537, 932>>, <<2243, 1044>>,
    <<305, 43>>, <<509, 153>>, <<612, 263>>, <<1715, 373>>, <<1819, 483>>, <<1124, 597>>, <<1528, 708>>, <<2932, 821>>,
    <<2637, 933>>, <<2343, 1045>>, <<405, 44>>, <<609, 154>>, <<712, 264>>, <<1815, 374>>, <<1919, 484>>, <<1224, 598>>,
    <<1628, 709>>, <<3032, 822>>, <<2737, 934>>, <<2443, 1046>>, <<505, 45>>, <<709, 155>>, <<812, 265>>, <<1915, 375>>,
    <<2019, 485>>, <<1324, 599>>, <<1728, 710>>, <<3132, 823>>, <<2837, 935>>, <<1144, 1047>>, <<605, 46>>, <<809, 156>>,
    <<912, 266>>, <<2015, 376>>, <<2119, 486>>, <<1424, 600>>, <<1828, 711>>, <<3432, 824>>, <<838, 936>>, <<1244, 1048>>,
    <<705, 47>>, <<909, 157>>, <<1012, 267>>, <<2115, 377>>, <<2219, 487>>, <<1524, 601>>, <<1928, 712>>, <<3532, 825>>,
    <<938, 937>>, <<1344, 1049>>, <<805, 48>>, <<1009, 158>>, <<1112, 268>>, <<2215, 378>>, <<2319, 488>>, <<1624, 602>>,
    <<2028, 713>>, <<833, 826>>, <<1038, 938>>, <<1444, 1050>>, <<905, 49>>, <<1109, 159>>, <<1212, 269>>, <<2315, 379>>,
    <<2419, 489>>, <<1724, 603>>, <<2128, 714>>, <<933, 827>>, <<1138, 939>>, <<1544, 1051>>, <<1005, 50>>, <<1209, 160>>,
    <<1312, 270>>, <<2415, 380>>, <<2519, 490>>, <<1824, 604>>, <<2228, 715>>, <<1033, 828>>, <<1238, 940>>, <<1644, 1052>>,
    <<1105, 51>>, <<1309, 161>>, <<1412, 271>>, <<2515, 381>>, <<2619, 491>>, <<1924, 605>>, <<2328, 716>>, <<1133, 829>>,
    <<1338, 941>>, <<1744, 1053>>, <<1205, 52>>, <<1409, 162>>, <<1512, 272>>, <<2615, 382>>, <<2719, 492>>, <<2024, 606>>,
    <<2428, 717>>, <<1233, 830>>, <<1438, 942>>, <<1844, 1054>>, <<1305, 53>>, <<1509, 163>>, <<1612, 273>>, <<2715, 383>>,
    <<2819, 493>>, <<2124, 607>>, <<2528, 718>>, <<1333, 831>>, <<1538, 943>>, <<1944, 1055>>, <<1405, 54>>, <<1609, 164>>,
    <<1712, 274>>, <<2815, 384>>, <<2919, 494>>, <<2224, 608>>, <<2628, 719>>, <<1433, 832>>, <<1638, 944>>, <<2044, 1056>>,
    <<1505, 55>>, <<1709, 165>>, <<1812, 275>>, <<2915, 385>>, <<3019, 495>>, <<2324, 609>>, <<2728, 720>>, <<1533, 833>>,
    <<1738, 945>>, <<2144, 1057>>, <<1605, 56>>, <<1809, 166>>, <<1912, 276>>, <<3015, 386>>, <<3119, 496>>, <<2424, 610>>,
    <<2828, 721>>, <<1633, 834>>, <<1838, 946>>, <<2244, 1058>>, <<1705, 57>>, <<1909, 167>>, <<2012, 277>>, <<3115, 387>>,
    <<3219, 497>>, <<2524, 611>>, <<2928, 722>>, <<1733, 835>>, <<1938, 947>>, <<2344, 1059>>, <<1805, 58>>, <<2009, 168>>,
    <<2112, 278>>, <<3215, 388>>, <<3319, 498>>, <<2624, 612>>, <<3828, 723>>, <<1833, 836>>, <<2038, 948>>, <<2444, 1060>>,
    <<1905, 59>>, <<2109, 169>>, <<2212, 279>>, <<3315, 389>>, <<1020, 500>>, <<2724, 613>>, <<3928, 724>>, <<1933, 837>>,
    <<2138, 949>>, <<1145, 1061>>, <<2005, 60>>, <<2209, 170>>, <<2312, 280>>, <<3415, 390>>, <<1120, 501>>, <<2824, 614>>,
    <<4028, 725>>, <<2033, 838>>, <<2238, 950>>, <<1245, 1062>>, <<2105, 61>>, <<2309, 171>>, <<2412, 281>>, <<3515, 391>>,
    <<1220, 502>>, <<2924, 615>>, <<829, 726>>, <<2133, 839>>, <<2338, 951>>, <<1345, 1063>>, <<2205, 62>>, <<2409, 172>>,
    <<2512, 282>>, <<3615, 392>>, <<1320, 503>>, <<3024, 616>>, <<929, 727>>, <<2233, 840>>, <<2438, 952>>, <<1445, 1064>>,
    <<2305, 63>>, <<2509, 173>>, <<2612, 283>>, <<3715, 393>>, <<1420, 504>>, <<3124, 617>>, <<1029, 728>>, <<2333, 841>>,
    <<2538, 953>>, <<1545, 1065>>, <<2405, 64>>, <<2609, 174>>, <<2712, 284>>, <<3815, 394>>, <<1520, 505>>, <<4224, 618>>,
    <<1129, 729>>, <<2433, 842>>, <<2638, 954>>, <<1645, 1066>>, <<2505, 65>>, <<2709, 175>>, <<2812, 285>>, <<1116, 395>>,
    <<1620, 506>>, <<4324, 619>>, <<1229, 730>>, <<2533, 843>>, <<2738, 955>>, <<1745, 1067>>, <<2605, 66>>, <<2809, 176>>,
    <<2912, 286>>, <<1216, 396>>, <<1720, 507>>, <<925, 620>>, <<1329, 731>>, <<2633, 844>>, <<2838, 956>>, <<1146, 1068>>,
    <<206, 67>>, <<2909, 177>>, <<3012, 287>>, <<1316, 397>>, <<1820, 508>>, <<1025, 621>>, <<1429, 732>>, <<2733, 845>>,
    <<839, 958>>, <<1246, 1069>>, <<306, 68>>, <<3009, 178>>, <<3112, 288>>, <<1416, 398>>, <<1920, 509>>, <<1125, 622>>,
    <<1529, 733>>, <<2833, 846>>, <<939, 959>>, <<1346, 1070>>, <<406, 69>>, <<3109, 179>>, <<3212, 289>>, <<1516, 399>>,
    <<2020, 510>>, <<1225, 623>>, <<1629, 734>>, <<2933, 847>>, <<1039, 960>>, <<1446, 1071>>, <<506, 70>>, <<3209, 180>>,
    <<3312, 290>>, <<1616, 400>>, <<2120, 511>>, <<1325, 624>>, <<1729, 735>>, <<3033, 848>>, <<1139, 961>>, <<1546, 1072>>,
    <<606, 71>>, <<3309, 181>>, <<3412, 291>>, <<1716, 401>>, <<2220, 512>>, <<1425, 625>>, <<1829, 736>>, <<834, 851>>,
    <<1239, 962>>, <<1247, 1073>>, <<706, 72>>, <<3409, 182>>, <<3512, 292>>, <<1816, 402>>, <<2320, 513>>, <<1525, 626>>,
    <<1929, 737>>, <<934, 852>>, <<1339, 963>>, <<1347, 1074>>, <<806, 73>>, <<3509, 183>>, <<3612, 293>>, <<1916, 403>>,
    <<2420, 514>>, <<1625, 627>>, <<2029, 738>>, <<1034, 853>>, <<1439, 964>>, <<1447, 1075>>, <<906, 74>>, <<310, 184>>,
    <<3712, 294>>, <<2016, 404>>, <<2520, 515>>, <<1725, 628>>, <<2129, 739>>, <<1134, 854>>, <<1539, 965>>, <<1248, 1076>>,
    <<1006, 75>>, <<410, 185>>, <<3812, 295>>, <<2116, 405>>, <<2620, 516>>, <<1825, 629>>, <<2229, 740>>, <<1234, 855>>,
    <<1639, 966>>, <<1348, 1077>>, <<1106, 76>>, <<510, 186>>, <<3912, 296>>, <<2216, 406>>, <<2720, 517>>, <<1925, 630>>,
    <<2329, 741>>, <<1334, 856>>, <<1739, 967>>, <<1448, 1078>>, <<1206, 77>>, <<610, 187>>, <<4012, 297>>, <<2316, 407>>,
    <<2820, 518>>, <<2025, 631>>, <<2429, 742>>, <<1434, 857>>, <<1839, 968>>, <<1306, 78>>, <<710, 188>>, <<313, 298>>,
    <<2416, 408>>, <<2920, 519>>, <<2125, 632>>, <<2529, 743>>, <<1534, 858>>, <<1939, 969>>, <<1406, 79>>, <<810, 189>>,
    <<413, 299>>, <<2516, 409>>, <<3020, 520>>, <<2225, 633>>, <<2629, 744>>, <<1634, 859>>, <<2039, 970>>, <<1506, 80>>,
    <<910, 190>>, <<513, 300>>, <<2616, 410>>, <<3120, 521>>, <<2325, 634>>, <<2729, 745>>, <<1734, 860>>, <<2139, 971>>,
    <<1606, 81>>, <<1010, 191>>, <<613, 301>>, <<2716, 411>>, <<3220, 522>>, <<2425, 635>>, <<2829, 746>>, <<1834, 861>>,
    <<2239, 972>>, <<1706, 82>>, <<1110, 192>>, <<713, 302>>, <<2816, 412>>, <<3320, 523>>, <<2525, 636>>, <<2929, 747>>,
    <<1934, 862>>, <<2339, 973>>, <<1806, 83>>, <<1210, 193>>, <<813, 303>>, <<2916, 413>>, <<1021, 525>>, <<2625, 637>>,
    <<3929, 748>>, <<2034, 863>>, <<2439, 974>>, <<1906, 84>>, <<1310, 194>>, <<913, 304>>, <<3016, 414>>, <<1121, 526>>,
    <<2725, 638>>, <<930, 750>>, <<2134, 864>>, <<2539, 975>>, <<2006, 85>>, <<1410, 195>>, <<1013, 305>>, <<3116, 415>>,
    <<1221, 527>>, <<2825, 639>>, <<1030, 751>>, <<2234, 865>>, <<2639, 976>>, <<2106, 86>>, <<1510, 196>>, <<1113, 306>>,
    <<3216, 416>>, <<1321, 528>>, <<2925, 640>>, <<1130, 752>>, <<2334, 866>>, <<2739, 977>>, <<2206, 87>>, <<1610, 197>>,
    <<1213, 307>>, <<3316, 417>>, <<1421, 529>>, <<3025, 641>>, <<1230, 753>>, <<2434, 867>>, <<2839, 978>>, <<2306, 88>>,
    <<1710, 198>>, <<1313, 308>>, <<3416, 418>>, <<1521, 530>>, <<3225, 642>>, <<1330, 754>>, <<2534, 868>>, <<840, 980>>,
    <<2406, 89>>, <<1810, 199>>, <<1413, 309>>, <<3516, 419>>, <<1621, 531>>, <<3925, 644>>, <<1430, 755>>, <<2634, 869>>,
    <<940, 981>>, <<2506, 90>>, <<1910, 200>>, <<1513, 310>>, <<3616, 420>>, <<1721, 532>>, <<4025, 645>>, <<1530, 756>>,
    <<2734, 870>>, <<1040, 982>>, <<2606, 91>>, <<2010, 201>>, <<1613, 311>>, <<3716, 421>>, <<1821, 533>>, <<4225, 646>>,
    <<1630, 757>>, <<2834, 871>>, <<1140, 983>>, <<207, 92>>, <<2110, 202>>, <<1713, 312>>, <<1017, 422>>, <<1921, 534>>,
    <<4325, 647>>, <<1730, 758>>, <<2934, 872>>, <<1240, 984>>, <<307, 93>>, <<2210, 203>>, <<1813, 313>>, <<1117, 423>>,
    <<2021, 535>>, <<926, 648>>, <<1830, 759>>, <<835, 873>>, <<1340, 985>>, <<407, 94>>, <<2310, 204>>, <<1913, 314>>,
    <<1217, 424>>, <<2121, 536>>, <<1026, 649>>, <<1930, 760>>, <<935, 874>>, <<1440, 986>>, <<507, 95>>, <<2410, 205>>,
    <<2013, 315>>, <<1317, 425>>, <<2221, 537>>, <<1126, 650>>, <<2030, 761>>, <<1035, 875>>, <<1540, 987>>, <<607, 96>>,
    <<2510, 206>>, <<2113, 316>>, <<1417, 426>>, <<2321, 538>>, <<1226, 651>>, <<2130, 762>>, <<1135, 876>>, <<1640, 988>>,
    <<707, 97>>, <<2610, 207>>, <<2213, 317>>, <<1517, 427>>, <<2421, 539>>, <<1326, 652>>, <<2230, 763>>, <<1235, 877>>,
    <<1740, 989>>, <<807, 98>>, <<2710, 208>>, <<2313, 318>>, <<1617, 428>>, <<2521, 540>>, <<1426, 653>>, <<2330, 764>>,
    <<1335, 878>>, <<1840, 990>>, <<907, 99>>, <<2810, 209>>, <<2413, 319>>, <<1717, 429>>, <<2621, 541>>, <<1526, 654>>,
    <<2430, 765>>, <<1435, 879>>, <<1940, 991>>, <<1007, 100>>, <<2910, 210>>, <<2513, 320>>, <<1817, 430>>, <<2721, 542>>,
    <<1626, 655>>, <<2530, 766>>, <<1535, 880>>, <<2040, 992>>, <<1107, 101>>, <<3010, 211>>, <<2613, 321>>, <<1917, 431>>,
    <<2821, 543>>, <<1726, 656>>, <<2630, 767>>, <<1635, 881>>, <<2140, 993>>, <<1207, 102>>, <<3110, 212>>, <<2713, 322>>,
    <<2017, 432>>, <<2921, 544>>, <<1826, 657>>, <<2730, 768>>, <<1735, 882>>, <<2240, 994>>, <<1307, 103>>, <<3210, 213>>,
    <<2813, 323>>, <<2117, 433>>, <<3021, 545>>, <<1926, 658>>, <<2830, 769>>, <<1835, 883>>, <<2340, 995>>, <<1407, 104>>,
    <<3310, 214>>, <<2913, 324>>, <<2217, 434>>, <<3121, 546>>, <<2026, 659>>, <<2930, 770>>, <<1935, 884>>, <<2440, 996>>,
    <<1507, 105>>, <<3410, 215>>, <<3013, 325>>, <<2317, 435>>, <<3221, 547>>, <<2126, 660>>, <<3030, 771>>, <<2035, 885>>,
    <<2540, 997>>, <<1607, 106>>, <<3510, 216>>, <<3113, 326>>, <<2417, 436>>, <<1022, 550>>, <<2226, 661>>, <<3430, 772>>,
    <<2135, 886>>, <<841, 998>>, <<1707, 107>>, <<3610, 217>>, <<3213, 327>>, <<2517, 437>>, <<1122, 551>>, <<2326, 662>>,
    <<3530, 773>>, <<2235, 887>>, <<941, 999>>, <<1807, 108>>, <<3710, 218>>, <<3313, 328>>, <<2617, 438>>, <<1222, 552>>,
    <<2426, 663>>, <<931, 775>>, <<2335, 888>>, <<1041, 1000>>, <<1907, 109>>, <<3810, 219>>, <<3413, 329>>, <<2717, 439>>,
    <<1322, 553>>, <<2526, 664>>, <<1031, 776>>, <<2435, 889>>, <<1141, 1001>>, <<2007, 110>>, <<3910, 220>>, <<3513, 330>>,
    <<2817, 440>>, <<1422, 554>>, <<2626, 665>>, <<1131, 777>>, <<2535, 890>>, <<1241, 1002>>, <<2107, 111>>, <<4010, 221>>,
    <<3613, 331>>, <<2917, 441>>, <<1522, 555>>, <<2726, 666>>, <<1231, 778>>, <<2635, 891>>, <<1341, 1003>>, <<2207, 112>>,
    <<311, 222>>, <<3713, 332>>, <<3017, 442>>, <<1622, 556>>, <<2826, 667>>, <<1331, 779>>, <<2735, 892>>, <<1441, 1004>>,
    <<2307, 113>>, <<411, 223>>, <<3813, 333>>, <<3117, 443>>, <<1722, 557>>, <<2926, 668>>, <<1431, 780>>, <<2835, 893>>,
    <<1541, 1005>>, <<2407, 114>>, <<511, 224>>, <<3913, 334>>, <<3217, 444>>, <<1822, 558>>, <<3026, 669>>, <<1531, 781>>,
    <<2935, 894>>, <<1641, 1006>>, <<2507, 115>>, <<611, 225>>, <<4013, 335>>, <<3317, 445>>, <<1922, 559>>, <<3826, 670>>,
    <<1631, 782>>, <<936, 895>>, <<1741, 1007>>, <<2607, 116>>, <<711, 226>>, <<614, 336>>, <<3417, 446>>, <<2022, 560>>,
    <<3926, 671>>, <<1731, 783>>, <<1036, 896>>, <<1841, 1008>>
  }

ccff_table ==
  [k \in {p[1] : p \in ccff_items} |-> (CHOOSE p \in ccff_items : p[1] = k)[2]]

(* MTN.origin: 9d 51' 15" W, 44d 00' 00" N *)
origin_init ==
  [lon |-> -((9 * 60 + 51) * 60 + 15) * SecUnits, lat |-> 44 * DegUnits]

-----------------------------------------------------------------------------
(* Python primitives *)

Abs(x) == IF x < 0 THEN -x ELSE x

(* variant: floor() in place of int() *)
PyIntFloat_floor(a, b) == a \div b

(* int(a / b) for b > 0: the integer nearest to zero *)
PyIntFloat(a, b) == IF a >= 0 THEN a \div b ELSE -((-a) \div b)

DigitChars == <<"0", "1", "2", "3", "4", "5", "6", "7", "8", "9">>

RECURSIVE Digits(_)
Digits(n) ==
  IF n < 10 THEN <<DigitChars[n + 1]>>
  ELSE Digits(n \div 10) \o <<DigitChars[(n % 10) + 1]>>

RECURSIVE PadLeft(_, _, _)
PadLeft(s, w, c) == IF Len(s) >= w THEN s ELSE PadLeft(<<c>> \o s, w, c)

(* "%<w>d" % n : sign and digits, right-justified with spaces *)
FmtD(n, w) ==
  PadLeft(IF n < 0 THEN <<"-">> \o Digits(-n) ELSE Digits(n), w, " ")

(* "%0<w>d" % n : sign first, then zeros up to the width *)
FmtZeroD(n, w) ==
  IF n < 0 THEN <<"-">> \o PadLeft(Digits(-n), w - 1, "0")
  ELSE PadLeft(Digits(n), w, "0")

IsDigit(c) == \E i \in 1..10 : DigitChars[i] = c

DigitVal(c) == (CHOOSE i \in 1..10 : DigitChars[i] = c) - 1

RECURSIVE Strip(_)
Strip(s) ==
  IF s = <<>> THEN s
  ELSE IF Head(s) = " " THEN Strip(Tail(s))
  ELSE IF s[Len(s)] = " " THEN Strip(SubSeq(s, 1, Len(s) - 1))
  ELSE s

RECURSIVE DigitsVal(_)
DigitsVal(s) ==
  IF s = <<>> THEN 0
  ELSE 10 * DigitsVal(SubSeq(s, 1, Len(s) - 1)) + DigitVal(s[Len(s)])

(* int(s) on a str: surrounding blanks are dropped, then an optional sign *)
(* and one or more digits; anything else is a ValueError                  *)
PyIntStr(s) ==
  LET t == Strip(s)
      signed == t # <<>> /\ Head(t) \in {"-", "+"}
      body == IF signed THEN Tail(t) ELSE t
  IN  IF body # <<>> /\ \A i \in 1..Len(body) : IsDigit(body[i])
      THEN [ok |-> TRUE,
            val |-> IF signed /\ Head(t) = "-" THEN -DigitsVal(body)
                    ELSE DigitsVal(body)]
      ELSE [ok |-> FALSE, val |-> 0]

-----------------------------------------------------------------------------
(* MTN.where(lon, lat) *)

NoIdx == [c50 |-> 0, r50 |-> 0, c25 |-> 0, r25 |-> 0, c10 |-> 0, r10 |-> 0]
NoFmt == <<>>
NoValue == "none"

(* variant: the "+ 1" of the index left out *)
GridIndex_noplus1(offset, k) ==
  IF offset * k >= 0 THEN (offset * k) \div DegUnits
  ELSE -((-(offset * k)) \div DegUnits)

(* int(offset * k) + 1, offset in degrees *)
GridIndex(offset, k) == PyIntFloat(offset * k, DegUnits) + 1

(* variant: the MTN25 indices computed with the MTN10 factors *)
WhereIdx_quarters(lon, lat) ==
  LET col == lon - origin.lon
      row == origin.lat - lat
  IN  [c50 |-> GridIndex(col, 3),  r50 |-> GridIndex(row, 6),
       c25 |-> GridIndex(col, 12), r25 |-> GridIndex(row, 24),
       c10 |-> GridIndex(col, 12), r10 |-> GridIndex(row, 24)]

(* variant: the row offset taken northward *)
WhereIdx_rowsNorth(lon, lat) ==
  LET col == lon - origin.lon
      row == lat - origin.lat
  IN  [c50 |-> GridIndex(col, 3),  r50 |-> GridIndex(row, 6),
       c25 |-> GridIndex(col, 6),  r25 |-> GridIndex(row, 12),
       c10 |-> GridIndex(col, 12), r10 |-> GridIndex(row, 24)]

(* variant: the MTN10 indices computed with the MTN25 factors *)
WhereIdx_tiers10(lon, lat) ==
  LET col == lon - origin.lon
      row == origin.lat - lat
  IN  [c50 |-> GridIndex(col, 3),  r50 |-> GridIndex(row, 6),
       c25 |-> GridIndex(col, 6),  r25 |-> GridIndex(row, 12),
       c10 |-> GridIndex(col, 6),  r10 |-> GridIndex(row, 12)]

WhereIdx(lon, lat) ==
  LET col == lon - origin.lon
      row == origin.lat - lat
  IN  [c50 |-> GridIndex(col, 3),  r50 |-> GridIndex(row, 6),
       c25 |-> GridIndex(col, 6),  r25 |-> GridIndex(row, 12),
       c10 |-> GridIndex(col, 12), r10 |-> GridIndex(row, 24)]

(* the three strings "%2d%2d", "%2d%2d", "%3d%03d" *)
WhereFmt(i) ==
  << FmtD(i.c50, 2) \o FmtD(i.r50, 2),
     FmtD(i.c25, 2) \o FmtD(i.r25, 2),
     FmtD(i.c10, 3) \o FmtZeroD(i.r10, 3) >>

(* variant: the MTN25 entry looked up with the MTN25 code *)
WhereResult_lookup25(f) ==
  LET p50 == PyIntStr(f[1])
      p25 == PyIntStr(f[2])
      p10 == PyIntStr(f[3])
  IN  IF ~p50.ok THEN [outcome |-> "ValueError", ret |-> "none", err |-> f[1]]
      ELSE IF ~p25.ok THEN [outcome |-> "ValueError", ret |-> "none", err |-> f[2]]
      ELSE IF ~p10.ok THEN [outcome |-> "ValueError", ret |-> "none", err |-> f[3]]
      ELSE IF p50.val \notin DOMAIN mtn_from_ccff
           THEN [outcome |-> "KeyError", ret |-> "none", err |-> p50.val]
      ELSE IF p25.val \notin DOMAIN mtn_from_ccff
           THEN [outcome |-> "KeyError", ret |-> "none", err |-> p25.val]
      ELSE [outcome |-> "return",
            ret |-> [MTN50 |-> <<p50.val, mtn_from_ccff[p50.val]>>,
                     MTN25 |-> <<p25.val, mtn_from_ccff[p25.val]>>,
                     MTN10 |-> <<p10.val, mtn_from_ccff[p50.val]>>],
            err |-> "none"]

(* variant: mtn_from_ccff.get(MTN50, 0) in place of mtn_from_ccff[MTN50] *)
WhereResult_default(f) ==
  LET p50 == PyIntStr(f[1])
      p25 == PyIntStr(f[2])
      p10 == PyIntStr(f[3])
      sheet == IF p50.val \in DOMAIN mtn_from_ccff THEN mtn_from_ccff[p50.val] ELSE 0
  IN  IF ~p50.ok THEN [outcome |-> "ValueError", ret |-> "none", err |-> f[1]]
      ELSE IF ~p25.ok THEN [outcome |-> "ValueError", ret |-> "none", err |-> f[2]]
      ELSE IF ~p10.ok THEN [outcome |-> "ValueError", ret |-> "none", err |-> f[3]]
      ELSE [outcome |-> "return",
            ret |-> [MTN50 |-> <<p50.val, sheet>>,
                     MTN25 |-> <<p25.val, sheet>>,
                     MTN10 |-> <<p10.val, sheet>>],
            err |-> "none"]

(* MTN50, MTN25, MTN10 = map(int, ...), then the dict display with the     *)
(* three look-ups of mtn_from_ccff[MTN50]                                  *)
WhereResult(f) ==
  LET p50 == PyIntStr(f[1])
      p25 == PyIntStr(f[2])
      p10 == PyIntStr(f[3])
  IN  IF ~p50.ok THEN [outcome |-> "ValueError", ret |-> NoValue, err |-> f[1]]
      ELSE IF ~p25.ok THEN [outcome |-> "ValueError", ret |-> NoValue, err |-> f[2]]
      ELSE IF ~p10.ok THEN [outcome |-> "ValueError", ret |-> NoValue, err |-> f[3]]
      ELSE IF p50.val \notin DOMAIN mtn_from_ccff
           THEN [outcome |-> "KeyError", ret |-> NoValue, err |-> p50.val]
      ELSE [outcome |-> "return",
            ret |-> [MTN50 |-> <<p50.val, mtn_from_ccff[p50.val]>>,
                     MTN25 |-> <<p25.val, mtn_from_ccff[p50.val]>>,
                     MTN10 |-> <<p10.val, mtn_from_ccff[p50.val]>>],
            err |-> NoValue]

(* variant: a failed look-up leaves a default entry in the table *)
where_caches ==
  /\ pc = "call"
  /\ op = "where"
  /\ LET i == WhereIdx(args.lon, args.lat)
         f == WhereFmt(i)
         r == WhereResult(f)
     IN  /\ idx' = i
         /\ fmt' = f
         /\ outcome' = r.outcome
         /\ ret' = r.ret
         /\ err' = r.err
         /\ mtn_from_ccff' = IF r.outcome = "KeyError"
                             THEN (r.err :> 0) @@ mtn_from_ccff
                             ELSE mtn_from_ccff
  /\ pc' = "done"
  /\ UNCHANGED <<op, args, origin, log, events>>

where ==
  /\ pc = "call"
  /\ op = "where"
  /\ LET i == WhereIdx(args.lon, args.lat)
         f == WhereFmt(i)
         r == WhereResult(f)
     IN  /\ idx' = i
         /\ fmt' = f
         /\ outcome' = r.outcome
         /\ ret' = r.ret
         /\ err' = r.err
  /\ pc' = "done"
  /\ UNCHANGED <<op, args, origin, mtn_from_ccff, log, events>>

-----------------------------------------------------------------------------
(* MTN.dms_to_dd(deg, minutes, seconds, direction)                          *)
(* args.deg in degrees, args.minutes in minutes, args.seconds in units of  *)
(* 1 / SecUnits second; the result in units of 1 / DegUnits degree         *)

(* variant: only 'W' negates *)
dms_to_dd_val_onlyW(deg, minutes, seconds, direction) ==
  (deg * DegUnits + (minutes * DegUnits) \div 60
     + (seconds * (DegUnits \div (60 * 60))) \div SecUnits)
  * (IF direction \in {"W"} THEN -1 ELSE 1)

dms_to_dd_val(deg, minutes, seconds, direction) ==
  (deg * DegUnits + (minutes * DegUnits) \div 60
     + (seconds * (DegUnits \div (60 * 60))) \div SecUnits)
  * (IF direction \in {"W", "S"} THEN -1 ELSE 1)

dms_to_dd ==
  /\ pc = "call"
  /\ op = "dms_to_dd"
  /\ outcome' = "return"
  /\ ret' = dms_to_dd_val(args.deg, args.minutes, args.seconds, args.direction)
  /\ err' = NoValue
  /\ pc' = "done"
  /\ UNCHANGED <<op, args, idx, fmt, origin, mtn_from_ccff, log, events>>

-----------------------------------------------------------------------------
(* MTN.dd_to_dms(deg, mode)                                                 *)
(* args.deg in units of 1 / DegUnits degree; the seconds of the result in  *)
(* units of 1 / SecUnits second                                            *)

UpperChars == <<"A", "B", "C", "D", "E", "F", "G", "H", "I", "J", "K", "L", "M",
                "N", "O", "P", "Q", "R", "S", "T", "U", "V", "W", "X", "Y", "Z">>
LowerChars == <<"a", "b", "c", "d", "e", "f", "g", "h", "i", "j", "k", "l", "m",
                "n", "o", "p", "q", "r", "s", "t", "u", "v", "w", "x", "y", "z">>

(* str.lower() *)
Lower(s) ==
  [i \in DOMAIN s |->
     IF \E j \in 1..26 : UpperChars[j] = s[i]
     THEN LowerChars[CHOOSE j \in 1..26 : UpperChars[j] = s[i]]
     ELSE s[i]]

(* variant: zero counted as positive *)
dd_sign_ge(deg) == IF deg >= 0 THEN 1 ELSE -1

dd_sign(deg) == IF deg > 0 THEN 1 ELSE -1

(* variant: the mode compared without lower() *)
dd_direction_nolower(sign, mode) ==
  IF mode = <<"l", "a", "t">>
  THEN (IF sign > 0 THEN "N" ELSE "S")
  ELSE (IF sign > 0 THEN "E" ELSE "W")

dd_direction(sign, mode) ==
  IF Lower(mode) = <<"l", "a", "t">>
  THEN (IF sign > 0 THEN "N" ELSE "S")
  ELSE (IF sign > 0 THEN "E" ELSE "W")

(* variant: the abs() of the fractional part left out *)
dd_to_dms_val_noabs(deg, mode) ==
  LET sign == dd_sign(deg)
      d == PyIntFloat(deg, DegUnits)
      md == (deg - d * DegUnits) * 60
      m == PyIntFloat(md, DegUnits)
      sd == (md - m * DegUnits) * 60
  IN  <<Abs(d), m, sd \div (DegUnits \div SecUnits), dd_direction(sign, mode)>>

dd_to_dms_val(deg, mode) ==
  LET sign == dd_sign(deg)
      d == PyIntFloat(deg, DegUnits)
      md == Abs(deg - d * DegUnits) * 60
      m == PyIntFloat(md, DegUnits)
      sd == (md - m * DegUnits) * 60
  IN  <<Abs(d), m, sd \div (DegUnits \div SecUnits), dd_direction(sign, mode)>>

dd_to_dms ==
  /\ pc = "call"
  /\ op = "dd_to_dms"
  /\ outcome' = "return"
  /\ ret' = dd_to_dms_val(args.deg, args.mode)
  /\ err' = NoValue
  /\ pc' = "done"
  /\ UNCHANGED <<op, args, idx, fmt, origin, mtn_from_ccff, log, events>>

-----------------------------------------------------------------------------
(* MTN.dms_to_dd_s(dms)                                                     *)
(* The two non-ASCII characters of the source are written by name.         *)

OrdinalSign == "ordm"
DegreeSign == "deg"

(* [\d\w\.] : digits, letters, underscore, the ordinal sign (a letter), dot *)
IsTokenChar(c) ==
  \/ IsDigit(c)
  \/ \E j \in 1..26 : UpperChars[j] = c \/ LowerChars[j] = c
  \/ c \in {"_", ".", OrdinalSign}

RECURSIVE SplitFrom(_, _, _)
SplitFrom(s, cur, inSep) ==
  IF s = <<>> THEN <<cur>>
  ELSE IF IsTokenChar(Head(s)) THEN SplitFrom(Tail(s), Append(cur, Head(s)), FALSE)
  ELSE IF inSep THEN SplitFrom(Tail(s), cur, TRUE)
  ELSE <<cur>> \o SplitFrom(Tail(s), <<>>, TRUE)

(* re.split('[^\d\w\.]+', dms) *)
DmsSplit(s) == SplitFrom(s, <<>>, FALSE)

(* re.sub('[deg ordm]', '', deg) *)
StripDegree(s) == SelectSeq(s, LAMBDA c : c \notin {DegreeSign, OrdinalSign})

RECURSIVE CountDots(_)
CountDots(s) ==
  IF s = <<>> THEN 0
  ELSE (IF Head(s) = "." THEN 1 ELSE 0) + CountDots(Tail(s))

RECURSIVE DotIndex(_)
DotIndex(s) == IF s = <<>> \/ Head(s) = "." THEN 1 ELSE 1 + DotIndex(Tail(s))

(* float(s) on a str made of token characters: digits with at most one dot *)
(* and at least one digit; num / 10^dec is the value.  (Exponents, 'inf',  *)
(* 'nan' and digit-grouping underscores do not occur in the inputs.)        *)
PyFloatStr(s) ==
  LET digits == SelectSeq(s, IsDigit)
  IN  IF /\ digits # <<>>
         /\ CountDots(s) <= 1
         /\ Len(digits) + CountDots(s) = Len(s)
      THEN [ok |-> TRUE, num |-> DigitsVal(digits),
            dec |-> IF CountDots(s) = 0 THEN 0 ELSE Len(s) - DotIndex(s)]
      ELSE [ok |-> FALSE, num |-> 0, dec |-> 0]

(* a parsed float times unit (the inputs have at most two decimals) *)
InUnits(p, unit) == (p.num * unit) \div (10^p.dec)

dms_to_dd_s_result(dms) ==
  LET toks == DmsSplit(dms)
  IN  IF Len(toks) # 4
      THEN [outcome |-> "ValueError", ret |-> NoValue, err |-> toks]
      ELSE LET deg == StripDegree(toks[1])
               pd == PyFloatStr(deg)
               pm == PyFloatStr(toks[2])
               ps == PyFloatStr(toks[3])
           IN  IF ~pd.ok THEN [outcome |-> "ValueError", ret |-> NoValue, err |-> deg]
               ELSE IF ~pm.ok
                    THEN [outcome |-> "ValueError", ret |-> NoValue, err |-> toks[2]]
               ELSE IF ~ps.ok
                    THEN [outcome |-> "ValueError", ret |-> NoValue, err |-> toks[3]]
               ELSE [outcome |-> "return",
                     ret |-> (InUnits(pd, DegUnits) + InUnits(pm, MinUnits)
                                + InUnits(ps, SecUnits))
                             * (IF toks[4] \in {<<"W">>, <<"S">>} THEN -1 ELSE 1),
                     err |-> NoValue]

dms_to_dd_s ==
  /\ pc = "call"
  /\ op = "dms_to_dd_s"
  /\ LET r == dms_to_dd_s_result(args.dms)
     IN  /\ outcome' = r.outcome
         /\ ret' = r.ret
         /\ err' = r.err
  /\ pc' = "done"
  /\ UNCHANGED <<op, args, idx, fmt, origin, mtn_from_ccff, log, events>>

(* Input strings: degree, minute, second and direction tokens written as   *)
(* in the examples of the source (8<ordm> 0' 2.86" W), also with a token    *)
(* missing, a leading blank, a trailing blank, or no direction at all.     *)
DegToks == { <<"8", OrdinalSign>>, <<"4", "3", OrdinalSign>>, <<"8">>,
             <<"8", ".", "5", OrdinalSign>>, <<"x", OrdinalSign>> }
MinToks == { <<"0">>, <<"4", "6">>, <<"7", "5">>, <<"x">> }
SecToks == { <<"2", ".", "8", "6">>, <<"1", "5">>, <<"0", "0">>,
             <<"2", ".", "8", ".", "6">> }
DirToks == { <<"N">>, <<"S">>, <<"E">>, <<"W">>, <<"X">>, <<"n">>,
             <<"W", "S">>, <<>> }

DmsJoin(d, m, s, r) == d \o <<" ">> \o m \o <<"'", " ">> \o s \o <<"\"", " ">> \o r

DmsStrings ==
  LET whole == {DmsJoin(d, m, s, r) :
                  d \in DegToks, m \in MinToks, s \in SecToks, r \in DirToks}
  IN  whole
      \cup {d \o <<" ">> \o m \o <<"'", " ">> \o r :
              d \in DegToks, m \in MinToks, r \in DirToks}
      \cup {<<" ">> \o w : w \in whole}
      \cup {w \o <<" ">> : w \in whole}

DmsStringArgs == [dms : DmsStrings]

-----------------------------------------------------------------------------
(* Inputs *)

EastSteps == 60
WestSteps == 12
SouthSteps == 92
NorthSteps == 12

(* half an MTN10 sheet: 2' 30" of longitude, 1' 15" of latitude *)
LonStep == 150 * SecUnits
LatStep == 75 * SecUnits

(* the worked example of the module header and of __main__:                *)
(* 3d 29' 06.32" W, 40d 22' 25.00" N; and the point (0, 0)                  *)
ExamplePoint ==
  [lon |-> -(((3 * 60 + 29) * 60 + 6) * SecUnits + 32),
   lat |-> ((40 * 60 + 22) * 60 + 25) * SecUnits]
ZeroPoint == [lon |-> 0, lat |-> 0]

WherePoints ==
  {[lon |-> origin_init.lon + i * LonStep, lat |-> origin_init.lat - j * LatStep] :
      i \in (-WestSteps)..EastSteps, j \in (-NorthSteps)..SouthSteps}
  \cup {ExamplePoint, ZeroPoint}

MaxDeg == 2
MaxMinutes == 75
DmsSeconds == {0, 286, 701, 15 * SecUnits, 60 * SecUnits - 1, 60 * SecUnits,
               72 * SecUnits + 50}
Directions == {"N", "S", "E", "W"}

DmsArgs ==
  [deg : (-1)..MaxDeg, minutes : 0..MaxMinutes, seconds : DmsSeconds,
   direction : Directions]

MaxDdSteps == 45
(* 8' 32.34" *)
DdStep == (8 * 60 + 32) * SecUnits + 34
(* 8d 0' 2.86" W and 43d 46' 7.01" N of the module header *)
DdExampleLon == -(8 * DegUnits + 286)
DdExampleLat == (43 * 60 + 46) * MinUnits + 701

DdValues ==
  {k * DdStep : k \in (-MaxDdSteps)..MaxDdSteps} \cup {DdExampleLon, DdExampleLat}

Modes == { <<"l", "a", "t">>, <<"L", "A", "T">>, <<"L", "a", "t">>,
           <<"l", "o", "n">>, <<"L", "O", "N">>,
           <<"l", "a", "t", "i", "t", "u", "d", "e">> }

DdArgs == [deg : DdValues, mode : Modes]

-----------------------------------------------------------------------------

Init ==
  /\ pc = "call"
  /\ \/ op = "where" /\ args \in WherePoints
     \/ op = "dms_to_dd" /\ args \in DmsArgs
     \/ op = "dd_to_dms" /\ args \in DdArgs
     \/ op = "dms_to_dd_s" /\ args \in DmsStringArgs
  /\ idx = NoIdx
  /\ fmt = NoFmt
  /\ outcome = NoValue
  /\ ret = NoValue
  /\ err = NoValue
  /\ origin = origin_init
  /\ mtn_from_ccff = ccff_table
  /\ log = <<>>
  /\ events = <<>>

Next ==
  \/ where
  \/ dms_to_dd
  \/ dd_to_dms
  \/ dms_to_dd_s

Spec == Init /\ [][Next]_vars

-----------------------------------------------------------------------------
(* Python float: IEEE 754 binary64, round to nearest, ties to even.         *)
(* A float is [neg, m, e] with value (-1)^neg * m * 2^e; the significand m   *)
(* is a natural number of at most MantBits bits, held as a little-endian    *)
(* sequence of limbs below LimbBase (no limb product exceeds 31 bits).      *)
(* Exponent range, infinities and NaN are not reached by angles.            *)

MantBits == 53
LimbBits == 15
LimbBase == 2^LimbBits

RECURSIVE BTrim(_)
BTrim(b) ==
  IF b = <<>> THEN b
  ELSE IF b[Len(b)] = 0 THEN BTrim(SubSeq(b, 1, Len(b) - 1))
  ELSE b

RECURSIVE BFromInt(_)
BFromInt(n) ==
  IF n = 0 THEN <<>> ELSE <<n % LimbBase>> \o BFromInt(n \div LimbBase)

RECURSIVE BToInt(_)
BToInt(b) == IF b = <<>> THEN 0 ELSE b[1] + LimbBase * BToInt(Tail(b))

RECURSIVE BMulCarry(_, _, _)
BMulCarry(b, k, carry) ==
  IF b = <<>> THEN BFromInt(carry)
  ELSE LET t == b[1] * k + carry
       IN  <<t % LimbBase>> \o BMulCarry(Tail(b), k, t \div LimbBase)

(* b * k, 0 <= k <= LimbBase *)
BMulSmall(b, k) == BTrim(BMulCarry(b, k, 0))

RECURSIVE BDivRem(_, _)
BDivRem(b, k) ==
  IF b = <<>> THEN [q |-> <<>>, r |-> 0]
  ELSE LET hi == BDivRem(Tail(b), k)
           t == hi.r * LimbBase + b[1]
       IN  [q |-> <<t \div k>> \o hi.q, r |-> t % k]

(* b \div k and b % k, 0 < k < LimbBase *)
BDivSmall(b, k) == LET d == BDivRem(b, k) IN [q |-> BTrim(d.q), r |-> d.r]

RECURSIVE BAddCarry(_, _, _)
BAddCarry(a, b, carry) ==
  IF a = <<>> /\ b = <<>> THEN BFromInt(carry)
  ELSE LET x == IF a = <<>> THEN 0 ELSE a[1]
           y == IF b = <<>> THEN 0 ELSE b[1]
           t == x + y + carry
       IN  <<t % LimbBase>>
           \o BAddCarry(IF a = <<>> THEN a ELSE Tail(a),
                        IF b = <<>> THEN b ELSE Tail(b), t \div LimbBase)

BAdd(a, b) == BTrim(BAddCarry(a, b, 0))

RECURSIVE BSubBorrow(_, _, _)
BSubBorrow(a, b, borrow) ==
  IF a = <<>> THEN <<>>
  ELSE LET y == IF b = <<>> THEN 0 ELSE b[1]
           t == a[1] - y - borrow
       IN  <<IF t < 0 THEN t + LimbBase ELSE t>>
           \o BSubBorrow(Tail(a), IF b = <<>> THEN b ELSE Tail(b),
                         IF t < 0 THEN 1 ELSE 0)

(* a - b for a >= b *)
BSub(a, b) == BTrim(BSubBorrow(a, b, 0))

RECURSIVE BCmpFrom(_, _, _)
BCmpFrom(a, b, i) ==
  IF i = 0 THEN 0
  ELSE IF a[i] < b[i] THEN -1
  ELSE IF a[i] > b[i] THEN 1
  ELSE BCmpFrom(a, b, i - 1)

(* -1, 0, 1 as a < b, a = b, a > b (both trimmed) *)
BCmp(a, b) ==
  IF Len(a) < Len(b) THEN -1
  ELSE IF Len(a) > Len(b) THEN 1
  ELSE BCmpFrom(a, b, Len(a))

(* b * 2^n *)
BShl(b, n) ==
  IF b = <<>> THEN b
  ELSE [i \in 1..(n \div LimbBits) |-> 0] \o BMulSmall(b, 2^(n % LimbBits))

(* b \div 2^n *)
BShr(b, n) ==
  IF Len(b) <= n \div LimbBits THEN <<>>
  ELSE BDivSmall(SubSeq(b, (n \div LimbBits) + 1, Len(b)), 2^(n % LimbBits)).q

RECURSIVE SmallBitLen(_)
SmallBitLen(n) == IF n = 0 THEN 0 ELSE 1 + SmallBitLen(n \div 2)

BBitLen(b) ==
  IF b = <<>> THEN 0 ELSE LimbBits * (Len(b) - 1) + SmallBitLen(b[Len(b)])

BIsOdd(b) == b # <<>> /\ b[1] % 2 = 1

(* the float nearest to (-1)^neg * n * 2^e, ties to even *)
FRound(neg, n, e) ==
  LET len == BBitLen(n)
  IN  IF len <= MantBits THEN [neg |-> neg, m |-> n, e |-> e]
      ELSE LET k == len - MantBits
               q == BShr(n, k)
               r == BSub(n, BShl(q, k))
               c == BCmp(r, BShl(<<1>>, k - 1))
               up == c > 0 \/ (c = 0 /\ BIsOdd(q))
           IN  [neg |-> neg, m |-> IF up THEN BAdd(q, <<1>>) ELSE q, e |-> e + k]

(* float(n) of an int *)
FFromInt(n) ==
  [neg |-> n < 0, m |-> BFromInt(IF n < 0 THEN -n ELSE n), e |-> 0]

QuotientShift == 6 * LimbBits

(* x / k for an int k > 0: the quotient with a sticky bit, then rounded *)
FDivInt(x, k) ==
  LET d == BDivSmall(BShl(x.m, QuotientShift), k)
      sticky == IF d.r = 0 THEN <<>> ELSE <<1>>
  IN  FRound(x.neg, BAdd(BMulSmall(d.q, 2), sticky), x.e - QuotientShift - 1)

(* x * k for an int k *)
FMulInt(x, k) ==
  FRound(x.neg # (k < 0), BMulSmall(x.m, IF k < 0 THEN -k ELSE k), x.e)

(* x + y *)
FAdd(x, y) ==
  LET e == IF x.e < y.e THEN x.e ELSE y.e
      a == BShl(x.m, x.e - e)
      b == BShl(y.m, y.e - e)
  IN  IF x.neg = y.neg THEN FRound(x.neg, BAdd(a, b), e)
      ELSE IF BCmp(a, b) = 0 THEN [neg |-> FALSE, m |-> <<>>, e |-> 0]
      ELSE IF BCmp(a, b) > 0 THEN FRound(x.neg, BSub(a, b), e)
      ELSE FRound(y.neg, BSub(b, a), e)

FNeg(x) == [x EXCEPT !.neg = ~x.neg]

FAbs(x) == [x EXCEPT !.neg = FALSE]

(* x > 0 *)
FIsPositive(x) == ~x.neg /\ x.m # <<>>

(* int(x): the fraction dropped *)
FToInt(x) ==
  LET a == IF x.e >= 0 THEN BToInt(BShl(x.m, x.e)) ELSE BToInt(BShr(x.m, -x.e))
  IN  IF x.neg THEN -a ELSE a

(* the float written as the decimal literal n / 10^2 *)
FFromHundredths(n) == FDivInt(FFromInt(n), 100)

-----------------------------------------------------------------------------
(* MTN.dms_to_dd and MTN.dd_to_dms in float arithmetic, as dd_to_dms is     *)
(* applied to the value dms_to_dd returned.  deg and minutes are ints, the *)
(* seconds argument is the float literal of seconds / 100.                  *)

(* variant: the seconds divided by 60 *)
dms_to_dd_float_sec60(deg, minutes, seconds, direction) ==
  FMulInt(FAdd(FAdd(FFromInt(deg), FDivInt(FFromInt(minutes), 60)),
               FDivInt(FFromHundredths(seconds), 60)),
          IF direction \in {"W", "S"} THEN -1 ELSE 1)

dms_to_dd_float(deg, minutes, seconds, direction) ==
  FMulInt(FAdd(FAdd(FFromInt(deg), FDivInt(FFromInt(minutes), 60)),
               FDivInt(FFromHundredths(seconds), 60 * 60)),
          IF direction \in {"W", "S"} THEN -1 ELSE 1)

dd_to_dms_float(deg, mode) ==
  LET sign == IF FIsPositive(deg) THEN 1 ELSE -1
      d == FToInt(deg)
      md == FMulInt(FAbs(FAdd(deg, FNeg(FFromInt(d)))), 60)
      m == FToInt(md)
      sd == FMulInt(FAdd(md, FNeg(FFromInt(m))), 60)
  IN  <<Abs(d), m, sd, dd_direction(sign, mode)>>

-----------------------------------------------------------------------------
(* Round trip: dd_to_dms applied to the float dms_to_dd returned, with     *)
(* mode 'lat' for N / S and 'lon' for E / W.  args keeps the sexagesimal    *)
(* angle the caller started from.                                          *)

(* MTN.origin_dms: 9d 51' 15" W, 44d 00' 00" N *)
OriginLonDms == [deg |-> 9, minutes |-> 51, seconds |-> 15 * SecUnits, direction |-> "W"]
OriginLatDms == [deg |-> 44, minutes |-> 0, seconds |-> 0, direction |-> "N"]

RtMaxDeg == 2
RtSeconds == {0, 1, 286, 15 * SecUnits, 60 * SecUnits - 1}

(* canonical angles: deg >= 0, minutes in [0, 60), seconds in [0, 60) *)
RtArgs ==
  [deg : 0..RtMaxDeg, minutes : 0..59, seconds : RtSeconds, direction : Directions]
  \cup {OriginLonDms, OriginLatDms}

RtMode(direction) ==
  IF direction \in {"N", "S"} THEN <<"l", "a", "t">> ELSE <<"l", "o", "n">>

roundtrip_dms_to_dd ==
  /\ pc = "call"
  /\ op = "roundtrip"
  /\ outcome' = "return"
  /\ ret' = dms_to_dd_float(args.deg, args.minutes, args.seconds, args.direction)
  /\ err' = NoValue
  /\ pc' = "dd"
  /\ UNCHANGED <<op, args, idx, fmt, origin, mtn_from_ccff, log, events>>

roundtrip_dd_to_dms ==
  /\ pc = "dd"
  /\ op = "roundtrip"
  /\ outcome' = "return"
  /\ ret' = dd_to_dms_float(ret, RtMode(args.direction))
  /\ err' = NoValue
  /\ pc' = "done"
  /\ UNCHANGED <<op, args, idx, fmt, origin, mtn_from_ccff, log, events>>

RtInit ==
  /\ pc = "call"
  /\ op = "roundtrip"
  /\ args \in RtArgs
  /\ idx = NoIdx
  /\ fmt = NoFmt
  /\ outcome = NoValue
  /\ ret = NoValue
  /\ err = NoValue
  /\ origin = origin_init
  /\ mtn_from_ccff = ccff_table
  /\ log = <<>>
  /\ events = <<>>

RtNext ==
  \/ roundtrip_dms_to_dd
  \/ roundtrip_dd_to_dms

RtSpec == RtInit /\ [][RtNext]_vars

-----------------------------------------------------------------------------
(* A run of calls, as __main__ makes them one after another: when a call   *)
(* has ended, by a return or by an exception, its outcome goes to log and  *)
(* the next call starts.                                                   *)

MaxCalls == 2

OriginPoint == origin_init
(* 7d 42' W, 42d 12' N: sheet 226 *)
SheetPoint == [lon |-> -(7 * 60 + 42) * MinUnits, lat |-> (42 * 60 + 12) * MinUnits]

CallPoints == {ExamplePoint, ZeroPoint, OriginPoint, SheetPoint}

CallDmsArgs == {OriginLonDms, OriginLatDms}

CallDdArgs ==
  {[deg |-> DdExampleLon, mode |-> <<"l", "o", "n">>],
   [deg |-> 0, mode |-> <<"l", "a", "t">>]}

(* 8<ordm> 0' 2.86" W, then without seconds, then with a letter for degrees *)
DmsExampleString == DmsJoin(<<"8", OrdinalSign>>, <<"0">>, <<"2", ".", "8", "6">>, <<"W">>)
DmsShortString == <<"8", OrdinalSign, " ", "0", "'", " ", "W">>
DmsLetterString == DmsJoin(<<"x", OrdinalSign>>, <<"0">>, <<"1", "5">>, <<"W">>)

CallDmsStringArgs == {[dms |-> s] : s \in {DmsExampleString, DmsShortString, DmsLetterString}}

CallsChoice(o, a) ==
  \/ o = "where" /\ a \in CallPoints
  \/ o = "dms_to_dd" /\ a \in CallDmsArgs
  \/ o = "dd_to_dms" /\ a \in CallDdArgs
  \/ o = "dms_to_dd_s" /\ a \in CallDmsStringArgs

CallsArgs == CallPoints \cup CallDmsArgs \cup CallDdArgs \cup CallDmsStringArgs

next_call ==
  /\ pc = "done"
  /\ Len(log) < MaxCalls
  /\ log' = Append(log, outcome)
  /\ \E o \in {"where", "dms_to_dd", "dd_to_dms", "dms_to_dd_s"} :
       \E a \in CallsArgs :
         /\ CallsChoice(o, a)
         /\ op' = o
         /\ args' = a
  /\ pc' = "call"
  /\ idx' = NoIdx
  /\ fmt' = NoFmt
  /\ outcome' = NoValue
  /\ ret' = NoValue
  /\ err' = NoValue
  /\ UNCHANGED <<origin, mtn_from_ccff, events>>

CallsInit ==
  /\ pc = "call"
  /\ \E o \in {"where", "dms_to_dd", "dd_to_dms", "dms_to_dd_s"} :
       /\ op = o
       /\ args \in CallsArgs
       /\ CallsChoice(o, args)
  /\ idx = NoIdx
  /\ fmt = NoFmt
  /\ outcome = NoValue
  /\ ret = NoValue
  /\ err = NoValue
  /\ origin = origin_init
  /\ mtn_from_ccff = ccff_table
  /\ log = <<>>
  /\ events = <<>>

CallsNext ==
  \/ where
  \/ dms_to_dd
  \/ dd_to_dms
  \/ dms_to_dd_s
  \/ next_call

CallsSpec == CallsInit /\ [][CallsNext]_vars

-----------------------------------------------------------------------------
(* Decimal float literals of the source *)

RECURSIVE BFromDigits(_)
BFromDigits(s) ==
  IF Len(s) <= 4 THEN BFromInt(DigitsVal(s))
  ELSE BAdd(BMulSmall(BFromDigits(SubSeq(s, 1, Len(s) - 4)), 10^4),
            BFromInt(DigitsVal(SubSeq(s, Len(s) - 3, Len(s)))))

RECURSIVE BDivPow10(_, _)
BDivPow10(b, k) ==
  IF k = 0 THEN [q |-> b, sticky |-> FALSE]
  ELSE LET n == IF k >= 4 THEN 4 ELSE 1
           d == BDivSmall(b, 10^n)
           rest == BDivPow10(d.q, k - n)
       IN  [q |-> rest.q, sticky |-> rest.sticky \/ d.r # 0]

(* the float of the literal whose digits are s, the last dec of them after *)
(* the decimal point: the nearest float to s / 10^dec                       *)
FFromDecimal(neg, s, dec) ==
  LET d == BDivPow10(BShl(BFromDigits(s), QuotientShift), dec)
  IN  FRound(neg, BAdd(BMulSmall(d.q, 2), IF d.sticky THEN <<1>> ELSE <<>>),
             -QuotientShift - 1)

(* origin.lon = -9.854166666666666 and origin.lat = 44.0 *)
origin_lon_literal ==
  FFromDecimal(TRUE, <<"9", "8", "5", "4", "1", "6", "6", "6", "6", "6", "6",
                       "6", "6", "6", "6", "6">>, 15)
origin_lat_literal == FFromDecimal(FALSE, <<"4", "4", "0">>, 1)

(* ROADTOOLS_OT_MatchTerrain.execute (roadtools/op_match_terrain.py).      *)
(* args is scene.roadtools_properties: terrain_mesh and road_curve, each   *)
(* None or an object with a name and a type.  events is what execute did   *)
(* to the outside, in order: its calls of BL_ROAD_UTILS.set_terrain_origin *)
(* (with the pair the call returned) and of self.report.                   *)

(* an unset pointer property *)
None == [name |-> NoValue, type |-> NoValue]

ObjectNames == {"Road", "Terrain"}
ObjectTypes == {"MESH", "CURVE", "EMPTY"}
Objects == {None} \cup [name : ObjectNames, type : ObjectTypes]
Properties == [terrain_mesh : Objects, road_curve : Objects]

(* what set_terrain_origin can return: a flag and a message; the flag is   *)
(* any Python value, written as its repr                                   *)
Flags == {"True", "False", "None", "0", "1"}
Messages == {"done", "failed"}
SetTerrainOriginResults == Flags \X Messages

(* bool(v) *)
Truthy(v) == v \in {"True", "1"}

(* variant: the type of the road is not looked at *)
InvalidInput_noCurve(p) ==
  \/ p.terrain_mesh = None
  \/ p.road_curve = None
  \/ p.terrain_mesh.type # "MESH"

InvalidInput(p) ==
  \/ p.terrain_mesh = None
  \/ p.road_curve = None
  \/ p.terrain_mesh.type # "MESH"
  \/ p.road_curve.type # "CURVE"

(* variant: level = 'ERROR' only for the flag False itself *)
ReportLevel_isFalse(flag) == IF flag = "False" THEN "ERROR" ELSE "INFO"

ReportLevel(flag) == IF ~Truthy(flag) THEN "ERROR" ELSE "INFO"

InvalidInputText ==
  "Invalid Input Data. Terrain should be a MESH, Road should be a CURVE"

(* 'RoadTools: Matching Terrain: %s' % msg *)
MatchingText(msg) == <<"RoadTools: Matching Terrain: ", msg>>

ReportEvent(level, text) ==
  [kind |-> "report", args |-> <<{level}, text>>, result |-> NoValue]

SetTerrainOriginEvent(road, terrain, result) ==
  [kind |-> "set_terrain_origin", args |-> <<road, terrain>>,
   result |-> result]

execute ==
  /\ pc = "call"
  /\ op = "execute"
  /\ IF InvalidInput(args)
     THEN events' = Append(events, ReportEvent("ERROR", InvalidInputText))
     ELSE \E r \in SetTerrainOriginResults :
            events' = events \o
              << SetTerrainOriginEvent(args.road_curve.name,
                                       args.terrain_mesh.name, r),
                 ReportEvent(ReportLevel(r[1]), MatchingText(r[2])) >>
  /\ outcome' = "return"
  /\ ret' = {"FINISHED"}
  /\ err' = NoValue
  /\ pc' = "done"
  /\ UNCHANGED <<op, args, idx, fmt, origin, mtn_from_ccff, log>>

ExecInit ==
  /\ pc = "call"
  /\ op = "execute"
  /\ args \in Properties
  /\ idx = NoIdx
  /\ fmt = NoFmt
  /\ outcome = NoValue
  /\ ret = NoValue
  /\ err = NoValue
  /\ origin = origin_init
  /\ mtn_from_ccff = ccff_table
  /\ log = <<>>
  /\ events = <<>>

ExecNext == execute

ExecSpec == ExecInit /\ [][ExecNext]_vars

-----------------------------------------------------------------------------

-----------------------------------------------------------------------------
(* Properties *)

WhereDone == pc = "done" /\ op = "where"
DmsDone == pc = "done" /\ op = "dms_to_dd"
DdDone == pc = "done" /\ op = "dd_to_dms"

(* q is num / den (den > 0) with the fraction dropped, i.e. the integer    *)
(* nearest to zero: |q| <= |num / den| < |q| + 1 and q has no opposite sign *)
IsTruncation(q, num, den) ==
  /\ Abs(q) * den <= Abs(num)
  /\ Abs(num) < (Abs(q) + 1) * den
  /\ (q > 0 => num > 0)
  /\ (q < 0 => num < 0)

(* C1: for every point and every tier, where computes                      *)
(* col = truncate((lon - origin.lon) * Kc) + 1 and                         *)
(* row = truncate((origin.lat - lat) * Kr) + 1, truncation being toward    *)
(* zero, also for negative offsets (west or north of the origin).          *)
C1_IndicesTruncate ==
  WhereDone =>
    LET dc == args.lon - origin.lon
        dr == origin.lat - args.lat
    IN  /\ IsTruncation(idx.c50 - 1, dc * 3, DegUnits)
        /\ IsTruncation(idx.r50 - 1, dr * 6, DegUnits)
        /\ IsTruncation(idx.c25 - 1, dc * 6, DegUnits)
        /\ IsTruncation(idx.r25 - 1, dr * 12, DegUnits)
        /\ IsTruncation(idx.c10 - 1, dc * 12, DegUnits)
        /\ IsTruncation(idx.r10 - 1, dr * 24, DegUnits)

(* a point north-west of the origin, off every sheet edge: truncation and  *)
(* floor differ in all six indices                                         *)
C1_Witness ==
  /\ WhereDone
  /\ args.lon < origin.lon
  /\ args.lat > origin.lat
  /\ ((origin.lon - args.lon) * 12) % DegUnits # 0
  /\ ((args.lat - origin.lat) * 24) % DegUnits # 0
  /\ idx.c50 = 1 /\ idx.r50 = 1
  /\ idx.c10 < 0 /\ idx.r10 < 0

InRange(i) ==
  /\ i.c50 \in 1..99 /\ i.r50 \in 1..99
  /\ i.c25 \in 1..99 /\ i.r25 \in 1..99
  /\ i.c10 \in 1..999 /\ i.r10 \in 1..999

(* C2: for every point whose indices lie in 1..99 (1..999 for the 10k      *)
(* tier), the code where forms for a tier is col * 100 + row (50k, 25k)    *)
(* and col * 1000 + row (10k), also when the row index has a single digit. *)
C2_CodeIsColRow ==
  (WhereDone /\ InRange(idx)) =>
    /\ PyIntStr(fmt[1]) = [ok |-> TRUE, val |-> idx.c50 * 100 + idx.r50]
    /\ PyIntStr(fmt[2]) = [ok |-> TRUE, val |-> idx.c25 * 100 + idx.r25]
    /\ PyIntStr(fmt[3]) = [ok |-> TRUE, val |-> idx.c10 * 1000 + idx.r10]
    /\ outcome # "ValueError"
    /\ outcome = "return" =>
         /\ ret.MTN50[1] = idx.c50 * 100 + idx.r50
         /\ ret.MTN25[1] = idx.c25 * 100 + idx.r25
         /\ ret.MTN10[1] = idx.c10 * 1000 + idx.r10

(* C3: whenever where returns a result, the legacy sheet number of each of *)
(* the three tiers is mtn_from_ccff[code50]; the 25k and 10k codes are not *)
(* used as keys, so the three numbers are equal.                           *)
C3_LegacyFrom50k ==
  (WhereDone /\ outcome = "return") =>
    /\ ret.MTN50[1] \in DOMAIN mtn_from_ccff
    /\ ret.MTN50[2] = mtn_from_ccff[ret.MTN50[1]]
    /\ ret.MTN25[2] = mtn_from_ccff[ret.MTN50[1]]
    /\ ret.MTN10[2] = mtn_from_ccff[ret.MTN50[1]]

(* a result whose 25k code is itself a key of the table, for another sheet *)
C3_Witness ==
  /\ WhereDone
  /\ outcome = "return"
  /\ ret.MTN25[1] \in DOMAIN mtn_from_ccff
  /\ mtn_from_ccff[ret.MTN25[1]] # mtn_from_ccff[ret.MTN50[1]]
  /\ ret.MTN25[2] = mtn_from_ccff[ret.MTN50[1]]

(* the 50k code where computed: all three strings converted by int()       *)
Code50Computed ==
  PyIntStr(fmt[1]).ok /\ PyIntStr(fmt[2]).ok /\ PyIntStr(fmt[3]).ok

(* C4: when the computed 50k code is not a key of the table, where ends in *)
(* an error that carries that code (KeyError), and a returned result never *)
(* has a legacy number that is not the table's entry for the 50k code.     *)
C4_UnknownCodeIsError ==
  WhereDone =>
    /\ (Code50Computed /\ PyIntStr(fmt[1]).val \notin DOMAIN mtn_from_ccff) =>
         (outcome = "KeyError" /\ err = PyIntStr(fmt[1]).val)
    /\ outcome = "return" => ret.MTN50[1] \in DOMAIN mtn_from_ccff

(* lon = 0, lat = 0: code 30265 *)
C4_Witness ==
  /\ WhereDone
  /\ args = ZeroPoint
  /\ outcome = "KeyError"
  /\ err = 30265

(* C5 as stated: where(-3.485088888888889, 40.37361111111111) yields 50k   *)
(* code 1922 mapped to sheet 559, and the 25k and 10k results report 559.  *)
C5_Example1922 ==
  (WhereDone /\ args = ExamplePoint) =>
    /\ outcome = "return"
    /\ ret.MTN50 = <<1922, 559>>
    /\ ret.MTN25[2] = 559
    /\ ret.MTN10[2] = 559

(* C5 amended: where(-3.485088888888889, 40.37361111111111) yields 50k     *)
(* code 2022 mapped to sheet 560, and the 25k (3944) and 10k (77088)       *)
(* results report the same sheet 560.                                      *)
C5_Example2022 ==
  (WhereDone /\ args = ExamplePoint) =>
    /\ outcome = "return"
    /\ ret.MTN50 = <<2022, 560>>
    /\ ret.MTN25 = <<3944, 560>>
    /\ ret.MTN10 = <<77088, 560>>

C5_Witness ==
  /\ WhereDone
  /\ args = ExamplePoint
  /\ outcome = "return"
  /\ idx.c50 = 20 /\ idx.r50 = 22

(* C6: for the point at the origin, where yields column 1 and row 1 for    *)
(* every tier, and the tier codes it forms are those of col = 1, row = 1.  *)
C6_OriginIsOneOne ==
  (WhereDone /\ args.lon = origin.lon /\ args.lat = origin.lat) =>
    /\ idx = [c50 |-> 1, r50 |-> 1, c25 |-> 1, r25 |-> 1, c10 |-> 1, r10 |-> 1]
    /\ PyIntStr(fmt[1]) = [ok |-> TRUE, val |-> 101]
    /\ PyIntStr(fmt[2]) = [ok |-> TRUE, val |-> 101]
    /\ PyIntStr(fmt[3]) = [ok |-> TRUE, val |-> 1001]
    /\ outcome # "ValueError"

LatModes == { <<"l", "a", "t">>, <<"L", "A", "T">>, <<"L", "a", "t">> }

(* C8 as stated: dd_to_dms treats zero as positive, 'N' on the latitude    *)
(* axis and 'E' on the longitude axis.                                     *)
C8_ZeroIsPositive ==
  (DdDone /\ args.deg = 0) =>
    ret[4] = (IF args.mode \in LatModes THEN "N" ELSE "E")

(* C8 amended: dd_to_dms treats zero as negative, 'S' on the latitude axis *)
(* and 'W' on the longitude axis.                                          *)
C8_ZeroIsNegative ==
  (DdDone /\ args.deg = 0) =>
    ret = <<0, 0, 0, IF args.mode \in LatModes THEN "S" ELSE "W">>

C8_Witness ==
  /\ DdDone
  /\ args.deg = 0
  /\ args.mode = <<"l", "a", "t">>
  /\ ret[4] = "S"

(* C9: dd_to_dms returns degrees = |truncate(value)|, minutes an integer   *)
(* in [0, 60), seconds in [0, 60), with                                    *)
(* degrees + minutes/60 + seconds/3600 = |value|; and                      *)
(* -8.000794444444445 on the longitude axis gives (8, 0, 2.86, 'W').       *)
C9_DdToDmsParts ==
  DdDone =>
    /\ ret[1] >= 0
    /\ \E q \in {ret[1], -ret[1]} : IsTruncation(q, args.deg, DegUnits)
    /\ ret[2] \in 0..59
    /\ ret[3] \in 0..(60 * SecUnits - 1)
    /\ ret[1] * DegUnits + ret[2] * MinUnits + ret[3] = Abs(args.deg)
    /\ (args.deg = DdExampleLon /\ args.mode = <<"l", "o", "n">>) =>
         ret = <<8, 0, 286, "W">>

C9_Witness ==
  /\ DdDone
  /\ args.deg = DdExampleLon
  /\ args.mode = <<"l", "o", "n">>
  /\ ret = <<8, 0, 286, "W">>

(* C10: for a non-zero value the direction is 'N' / 'S' on the latitude    *)
(* axis (mode 'lat' in any case) and 'E' / 'W' on the longitude axis, by   *)
(* the sign of the original value, also inside (-1, 0).                    *)
C10_DirectionBySign ==
  (DdDone /\ args.deg # 0) =>
    ret[4] = (IF args.mode \in LatModes
              THEN (IF args.deg > 0 THEN "N" ELSE "S")
              ELSE (IF args.deg > 0 THEN "E" ELSE "W"))

(* a value in (-1, 0) on the latitude axis, mode in upper case *)
C10_Witness ==
  /\ DdDone
  /\ args.deg < 0
  /\ args.deg > -DegUnits
  /\ args.mode = <<"L", "A", "T">>
  /\ ret[1] = 0
  /\ ret[4] = "S"

RtDone == pc = "done" /\ op = "roundtrip"

(* |x - n / 100| <= 1 / 100 for a float x >= 0, compared exactly *)
WithinHundredth(x, n) ==
  LET k == IF x.e < 0 THEN -x.e ELSE 0
      a == BMulSmall(IF x.e > 0 THEN BShl(x.m, x.e) ELSE x.m, 100)
  IN  /\ ~x.neg \/ x.m = <<>>
      /\ BCmp(a, BShl(BFromInt(n + 1), k)) <= 0
      /\ BCmp(BAdd(a, BShl(<<1>>, k)), BShl(BFromInt(n), k)) >= 0

(* C11: for every canonical sexagesimal angle other than 0 degrees,        *)
(* dd_to_dms(dms_to_dd(d, m, s, dir), mode) returns the same degrees,      *)
(* minutes and direction, and seconds within 0.01 second of arc.           *)
C11_RoundTrip ==
  (RtDone /\ (args.deg # 0 \/ args.minutes # 0 \/ args.seconds # 0)) =>
    /\ ret[1] = args.deg
    /\ ret[2] = args.minutes
    /\ WithinHundredth(ret[3], args.seconds)
    /\ ret[4] = args.direction

DmsSDone == pc = "done" /\ op = "dms_to_dd_s"

(* the string does not decompose into degrees, minutes, seconds, direction *)
Malformed(dms) ==
  LET toks == DmsSplit(dms)
  IN  \/ Len(toks) # 4
      \/ ~PyFloatStr(StripDegree(toks[1])).ok
      \/ ~PyFloatStr(toks[2]).ok
      \/ ~PyFloatStr(toks[3]).ok
      \/ toks[4] \notin { <<"N">>, <<"S">>, <<"E">>, <<"W">> }

(* C12: dms_to_dd_s ends in an error, and returns no number, whenever the  *)
(* string has a wrong token count, a non-numeric degrees, minutes or       *)
(* seconds component, or a direction token that is not N, S, E or W.       *)
C12_MalformedIsError ==
  (DmsSDone /\ Malformed(args.dms)) => outcome = "ValueError"

(* what each call of the run returns or raises, by its arguments alone *)
CallsExpected(o, a) ==
  CASE o = "where" /\ a = ExamplePoint ->
         [outcome |-> "return",
          ret |-> [MTN50 |-> <<2022, 560>>, MTN25 |-> <<3944, 560>>,
                   MTN10 |-> <<77088, 560>>]]
    [] o = "where" /\ a = SheetPoint ->
         [outcome |-> "return",
          ret |-> [MTN50 |-> <<711, 226>>, MTN25 |-> <<1322, 226>>,
                   MTN10 |-> <<26044, 226>>]]
    [] o = "where" /\ a = ZeroPoint -> [outcome |-> "KeyError", ret |-> "none"]
    [] o = "where" /\ a = OriginPoint -> [outcome |-> "ValueError", ret |-> "none"]
    [] o = "dms_to_dd" /\ a = OriginLonDms -> [outcome |-> "return", ret |-> -3547500]
    [] o = "dms_to_dd" /\ a = OriginLatDms -> [outcome |-> "return", ret |-> 15840000]
    [] o = "dd_to_dms" /\ a.deg = 0 ->
         [outcome |-> "return", ret |-> <<0, 0, 0, "S">>]
    [] o = "dd_to_dms" /\ a.deg # 0 ->
         [outcome |-> "return", ret |-> <<8, 0, 286, "W">>]
    [] o = "dms_to_dd_s" /\ a.dms = DmsExampleString ->
         [outcome |-> "return", ret |-> -2880286]
    [] o = "dms_to_dd_s" /\ a.dms # DmsExampleString ->
         [outcome |-> "ValueError", ret |-> "none"]

(* C13: after any run of calls of dms_to_dd, dms_to_dd_s, dd_to_dms and    *)
(* where, succeeding or failing, the origin and the table are as           *)
(* initialised, and every call ends as its own arguments determine,        *)
(* whatever the earlier calls of the run were and however they ended.      *)
C13_CallsArePure ==
  /\ origin = origin_init
  /\ mtn_from_ccff = ccff_table
  /\ pc = "done" =>
       /\ outcome = CallsExpected(op, args).outcome
       /\ ret = CallsExpected(op, args).ret

(* a where call that returned after two earlier calls of the run, the last *)
(* of which raised KeyError                                                *)
C13_Witness ==
  /\ pc = "done"
  /\ op = "where"
  /\ args = ExamplePoint
  /\ outcome = "return"
  /\ Len(log) = 2
  /\ log[2] = "KeyError"
  /\ log[1] \in {"ValueError", "return"}

(* the floats x and y are the same number *)
FSame(x, y) ==
  LET e == IF x.e < y.e THEN x.e ELSE y.e
  IN  /\ x.neg = y.neg
      /\ BShl(x.m, x.e - e) = BShl(y.m, y.e - e)

RECURSIVE BTimes(_, _)
BTimes(b, ks) == IF ks = <<>> THEN b ELSE BTimes(BMulSmall(b, Head(ks)), Tail(ks))

(* |x - u / DegUnits| <= 10^-9 for a float x and an angle of u units *)
WithinNano(x, u) ==
  LET k == IF x.e < 0 THEN -x.e ELSE 0
      nano == <<1000, 1000, 1000>>
      a == BTimes(IF x.e > 0 THEN BShl(x.m, x.e) ELSE x.m, <<600, 600>> \o nano)
      b == BShl(BTimes(BFromInt(Abs(u)), nano), k)
      t == BShl(BTimes(<<1>>, <<600, 600>>), k)
  IN  /\ x.neg = (u < 0)
      /\ BCmp(a, BAdd(b, t)) <= 0
      /\ BCmp(b, BAdd(a, t)) <= 0

(* C14: the origin where uses is the conversion of its sexagesimal         *)
(* definition: dms_to_dd(9, 51, 15, 'W') is the float -9.854166666666666   *)
(* of origin.lon, within 10^-9 of -(9 + 51/60 + 15/3600), and              *)
(* dms_to_dd(44, 0, 0, 'N') is the float 44.0 of origin.lat.               *)
C14_OriginIsConversion ==
  (op = "roundtrip" /\ pc = "dd") =>
    /\ args = OriginLonDms =>
         /\ FSame(ret, origin_lon_literal)
         /\ WithinNano(ret, -(9 * DegUnits + 51 * MinUnits + 15 * SecUnits))
         /\ WithinNano(ret, origin.lon)
    /\ args = OriginLatDms =>
         /\ FSame(ret, origin_lat_literal)
         /\ FSame(ret, FFromInt(44))
         /\ WithinNano(ret, origin.lat)

C14_Witness ==
  /\ op = "roundtrip"
  /\ pc = "dd"
  /\ args = OriginLonDms
  /\ outcome = "return"
  /\ ret.neg
  /\ FToInt(ret) = -9

ExecDone == pc = "done" /\ op = "execute"

Reports == {i \in 1..Len(events) : events[i].kind = "report"}
OriginCalls == {i \in 1..Len(events) : events[i].kind = "set_terrain_origin"}

TerrainIsMesh ==
  args.terrain_mesh \in [name : ObjectNames, type : {"MESH"}]
RoadIsCurve ==
  args.road_curve \in [name : ObjectNames, type : {"CURVE"}]

(* C15: when terrain_mesh is unset, or road_curve is unset, or the terrain *)
(* is not a MESH, or the road is not a CURVE, execute reports exactly one  *)
(* message, at level ERROR, never calls set_terrain_origin, and returns    *)
(* {"FINISHED"}.                                                           *)
C15_InvalidInputReportsError ==
  (ExecDone /\ ~(TerrainIsMesh /\ RoadIsCurve)) =>
    /\ OriginCalls = {}
    /\ Cardinality(Reports) = 1
    /\ \A i \in Reports : events[i].args[1] = {"ERROR"}
    /\ outcome = "return"
    /\ ret = {"FINISHED"}

C15_Witness ==
  /\ ExecDone
  /\ TerrainIsMesh
  /\ args.road_curve # None
  /\ args.road_curve.type = "MESH"
  /\ Len(events) = 1
  /\ events[1].args = <<{"ERROR"}, InvalidInputText>>

(* C16: when the terrain is a MESH and the road is a CURVE, execute calls  *)
(* set_terrain_origin exactly once, with (road_curve.name,                 *)
(* terrain_mesh.name) in that order, then reports exactly one message, at  *)
(* level INFO when the returned flag is truthy and ERROR otherwise, and    *)
(* returns {"FINISHED"}; no report precedes the call.                      *)
C16_CallThenReport ==
  (ExecDone /\ TerrainIsMesh /\ RoadIsCurve) =>
    /\ Cardinality(OriginCalls) = 1
    /\ Cardinality(Reports) = 1
    /\ \A c \in OriginCalls :
         /\ events[c].args = <<args.road_curve.name, args.terrain_mesh.name>>
         /\ \A r \in Reports :
              /\ c < r
              /\ events[r].args[1] =
                   IF events[c].result[1] \in {"True", "1"}
                   THEN {"INFO"} ELSE {"ERROR"}
              /\ events[r].args[2] = MatchingText(events[c].result[2])
    /\ outcome = "return"
    /\ ret = {"FINISHED"}

C16_Witness ==
  /\ ExecDone
  /\ args.terrain_mesh = [name |-> "Terrain", type |-> "MESH"]
  /\ args.road_curve = [name |-> "Road", type |-> "CURVE"]
  /\ Len(events) = 2
  /\ events[1].kind = "set_terrain_origin"
  /\ events[1].result[1] = "0"
  /\ events[2].args[1] = {"ERROR"}

(* C17: the three grids are nested: at or south-east of the origin the     *)
(* indices where computes satisfy col25 - 2 * col50 in {-1, 0},            *)
(* row25 - 2 * row50 in {-1, 0}, col10 - 4 * col50 in -3..0 and            *)
(* row10 - 4 * row50 in -3..0.                                             *)
C17_GridsNested ==
  (WhereDone /\ args.lon >= origin.lon /\ args.lat <= origin.lat) =>
    /\ idx.c25 - 2 * idx.c50 \in {-1, 0}
    /\ idx.r25 - 2 * idx.r50 \in {-1, 0}
    /\ idx.c10 - 4 * idx.c50 \in {-3, -2, -1, 0}
    /\ idx.r10 - 4 * idx.r50 \in {-3, -2, -1, 0}

(* the worked example of the module header: 39 - 20 * 2, 44 - 22 * 2,      *)
(* 77 - 20 * 4, 88 - 22 * 4                                                *)
C17_Witness ==
  /\ WhereDone
  /\ args = ExamplePoint
  /\ idx.c25 - 2 * idx.c50 = -1
  /\ idx.r25 - 2 * idx.r50 = 0
  /\ idx.c10 - 4 * idx.c50 = -3
  /\ idx.r10 - 4 * idx.r50 = 0

(* the longitudes and latitudes a second point is taken from *)
OtherLons ==
  {origin_init.lon + i * LonStep : i \in (-WestSteps)..EastSteps}
  \cup {ExamplePoint.lon, ZeroPoint.lon}
OtherLats ==
  {origin_init.lat - j * LatStep : j \in (-NorthSteps)..SouthSteps}
  \cup {ExamplePoint.lat, ZeroPoint.lat}

(* C18: indices are monotone in position, on both sides of the origin: a   *)
(* point further east has no smaller column index, a point further south   *)
(* has no smaller row index, in every tier.                                *)
C18_IndicesMonotone ==
  WhereDone =>
    /\ \A l \in OtherLons :
         args.lon <= l =>
           LET o == WhereIdx(l, args.lat)
           IN  idx.c50 <= o.c50 /\ idx.c25 <= o.c25 /\ idx.c10 <= o.c10
    /\ \A l \in OtherLats :
         args.lat >= l =>
           LET o == WhereIdx(args.lon, l)
           IN  idx.r50 <= o.r50 /\ idx.r25 <= o.r25 /\ idx.r10 <= o.r10

(* a point north-west of the origin with indices below those of the        *)
(* origin, itself below those of the worked example                        *)
C18_Witness ==
  /\ WhereDone
  /\ args.lon < origin.lon
  /\ args.lat > origin.lat
  /\ idx.c50 < WhereIdx(origin.lon, origin.lat).c50
  /\ idx.r50 < WhereIdx(origin.lon, origin.lat).r50
  /\ WhereIdx(origin.lon, origin.lat).c50
       < WhereIdx(ExamplePoint.lon, ExamplePoint.lat).c50
  /\ WhereIdx(origin.lon, origin.lat).r50
       < WhereIdx(ExamplePoint.lon, ExamplePoint.lat).r50

(* both offsets on one side of zero *)
SameSide(a, b) == (a >= 0 /\ b >= 0) \/ (a <= 0 /\ b <= 0)

(* points with index i and j in a tier of k sheets per degree, d units     *)
(* apart, are less than n sheets apart when they have the same index       *)
SameIndexWithin(i, j, d, k, n) == i = j => Abs(d) * k < n * DegUnits

(* C19 as stated: two points with the same column index are less than one  *)
(* sheet width (1/Kc degree) apart, two points with the same row index     *)
(* less than one sheet height (1/Kr degree), also on opposite sides of the *)
(* origin.                                                                 *)
C19_SameIndexOneSheet ==
  WhereDone =>
    /\ \A l \in OtherLons :
         LET o == WhereIdx(l, args.lat)
             d == l - args.lon
         IN  /\ SameIndexWithin(idx.c50, o.c50, d, 3, 1)
             /\ SameIndexWithin(idx.c25, o.c25, d, 6, 1)
             /\ SameIndexWithin(idx.c10, o.c10, d, 12, 1)
    /\ \A l \in OtherLats :
         LET o == WhereIdx(args.lon, l)
             d == l - args.lat
         IN  /\ SameIndexWithin(idx.r50, o.r50, d, 6, 1)
             /\ SameIndexWithin(idx.r25, o.r25, d, 12, 1)
             /\ SameIndexWithin(idx.r10, o.r10, d, 24, 1)

(* C19, amended: two points with the same index are less than one sheet    *)
(* apart when they lie on the same side of the origin, and less than two   *)
(* sheets apart otherwise (index 1 is the cell on either side of the       *)
(* origin, truncation being toward zero).                                  *)
C19_SameIndexSameSide ==
  WhereDone =>
    /\ \A l \in OtherLons :
         LET o == WhereIdx(l, args.lat)
             d == l - args.lon
             n == IF SameSide(args.lon - origin.lon, l - origin.lon)
                  THEN 1 ELSE 2
         IN  /\ SameIndexWithin(idx.c50, o.c50, d, 3, n)
             /\ SameIndexWithin(idx.c25, o.c25, d, 6, n)
             /\ SameIndexWithin(idx.c10, o.c10, d, 12, n)
    /\ \A l \in OtherLats :
         LET o == WhereIdx(args.lon, l)
             d == l - args.lat
             n == IF SameSide(origin.lat - args.lat, origin.lat - l)
                  THEN 1 ELSE 2
         IN  /\ SameIndexWithin(idx.r50, o.r50, d, 6, n)
             /\ SameIndexWithin(idx.r25, o.r25, d, 12, n)
             /\ SameIndexWithin(idx.r10, o.r10, d, 24, n)

(* 10' west of the origin and 15' east of it: 25' apart, both in column 1  *)
(* of MTN50                                                                *)
C19_Witness ==
  /\ WhereDone
  /\ args.lon = origin.lon - 4 * LonStep
  /\ idx.c50 = 1
  /\ WhereIdx(origin.lon + 6 * LonStep, args.lat).c50 = 1
  /\ 10 * LonStep * 3 >= DegUnits

====
